---- MODULE Spec2Model ----
(***************************************************************************)
(* Pallet profit tracker: the financial computation (calculateFinancials)  *)
(* and the application handlers that feed it (record sale, delete sale,    *)
(* settings edits, reset, currency switch, simulator, export).             *)
(*                                                                         *)
(* JavaScript numbers are IEEE-754 binary floating point.  The model keeps *)
(* that arithmetic, scaled down: a finite number is an integer count of    *)
(* quanta of 2^-FracBits (the subnormal spacing), carries at most          *)
(* Precision significant bits, is rounded to nearest (ties to even) after  *)
(* every operation, and overflows to Infinity at 2^ExpMax quanta.  NaN and *)
(* the two infinities behave as in IEEE-754.  The sign of zero is not      *)
(* kept: -0 and 0 are the same value here, as they are under ===.          *)
(***************************************************************************)
EXTENDS Integers, Sequences, FiniteSets, TLC

\* ------------------------------------------------------------ number format
Precision == 11
FracBits == 3
ExpMax == 18

NaN == [k |-> "nan", v |-> 0]
PosInf == [k |-> "inf", v |-> 1]
NegInf == [k |-> "inf", v |-> -1]
Fin(x) == [k |-> "fin", v |-> x]
Zero == Fin(0)

\* null, and ToNumber(x) as the arithmetic operators apply it: null is 0
Null == [k |-> "null", v |-> 0]
ToNumber(x) == IF x = Null THEN Zero ELSE x

IsNaN(a) == a.k = "nan"
IsInf(a) == a.k = "inf"
IsFin(a) == a.k = "fin"

Abs(x) == IF x < 0 THEN -x ELSE x
Sgn(x) == IF x < 0 THEN -1 ELSE IF x > 0 THEN 1 ELSE 0
MaxInt(x, y) == IF x >= y THEN x ELSE y

\* number of bits of q >= 0
RECURSIVE BitLen(_)
BitLen(q) == IF q = 0 THEN 0 ELSE 1 + BitLen(q \div 2)

\* number of trailing zero bits of q > 0 (0 for q = 0)
RECURSIVE TrailingZeros(_)
TrailingZeros(q) == IF q = 0 \/ q % 2 = 1 THEN 0 ELSE 1 + TrailingZeros(q \div 2)

OddPart(q) == q \div (2 ^ TrailingZeros(q))

\* floor(log2(n / d)) for n, d > 0
Log2Floor(n, d) ==
  IF n >= d THEN BitLen(n \div d) - 1
  ELSE LET k == BitLen(d) - BitLen(n)
       IN  IF n * (2 ^ k) >= d THEN -k ELSE -(k + 1)

Signed(sign, a) ==
  IF sign >= 0 THEN a
  ELSE IF IsFin(a) THEN Fin(-a.v)
  ELSE IF IsInf(a) THEN [k |-> "inf", v |-> -a.v]
  ELSE a

\* val quanta, or Infinity when that is beyond the largest finite number
Overflowed(val) == IF val >= 2 ^ ExpMax THEN PosInf ELSE Fin(val)

\* num / den rounded to the nearest integer, ties to even
NearestEven(num, den) ==
  LET t == num \div den
      r == num % den
  IN  IF 2 * r > den \/ (2 * r = den /\ t % 2 = 1) THEN t + 1 ELSE t

\* (n / d) * 2^e rounded to a multiple of 2^ue quanta
RoundToUnit(n, d, e, ue) ==
  Overflowed(NearestEven(IF e >= ue THEN n * (2 ^ (e - ue)) ELSE n,
                         IF e >= ue THEN d ELSE d * (2 ^ (ue - e)))
             * (2 ^ ue))

\* (n / d) * 2^e, whose binary exponent is lg, rounded to Precision bits
RoundAtExponent(n, d, e, lg) ==
  IF lg >= ExpMax THEN PosInf
  ELSE IF lg < -1 THEN Zero
  ELSE RoundToUnit(n, d, e, MaxInt(0, lg - Precision + 1))

\* The positive rational (n / d) * 2^e, in quanta, rounded to the format.
RoundPos(n, d, e) == RoundAtExponent(n, d, e, e + Log2Floor(n, d))

\* The integer x (in quanta) rounded to the format: an integer below
\* 2^Precision is a number as it stands.
RoundInt(x) ==
  IF Abs(x) < 2 ^ Precision THEN Fin(x) ELSE Signed(Sgn(x), RoundPos(Abs(x), 1, 0))

\* The literal i of the source (an integer), as a number.
Num(i) == IF i = 0 THEN Zero ELSE Signed(Sgn(i), RoundPos(Abs(i), 1, FracBits))

Neg(a) == Signed(-1, a)

\* a + b
Add(a, b) ==
  IF IsNaN(a) \/ IsNaN(b) THEN NaN
  ELSE IF IsInf(a) THEN (IF IsInf(b) /\ b.v # a.v THEN NaN ELSE a)
  ELSE IF IsInf(b) THEN b
  ELSE RoundInt(a.v + b.v)

\* a - b
Sub(a, b) == Add(a, Neg(b))

\* a * b
Mul(a, b) ==
  IF IsNaN(a) \/ IsNaN(b) THEN NaN
  ELSE IF IsInf(a) \/ IsInf(b)
       THEN (IF a.v = 0 \/ b.v = 0 THEN NaN
             ELSE [k |-> "inf", v |-> Sgn(a.v) * Sgn(b.v)])
  ELSE IF a.v = 0 \/ b.v = 0 THEN Zero
  ELSE Signed(Sgn(a.v) * Sgn(b.v),
              RoundPos(OddPart(Abs(a.v)) * OddPart(Abs(b.v)), 1,
                       TrailingZeros(Abs(a.v)) + TrailingZeros(Abs(b.v)) - FracBits))

\* a / b
Div(a, b) ==
  IF IsNaN(a) \/ IsNaN(b) THEN NaN
  ELSE IF IsInf(a)
       THEN (IF IsInf(b) THEN NaN
             ELSE [k |-> "inf", v |-> a.v * (IF b.v < 0 THEN -1 ELSE 1)])
  ELSE IF IsInf(b) THEN Zero
  ELSE IF b.v = 0
       THEN (IF a.v = 0 THEN NaN ELSE [k |-> "inf", v |-> Sgn(a.v)])
  ELSE IF a.v = 0 THEN Zero
  ELSE Signed(Sgn(a.v) * Sgn(b.v),
              RoundPos(OddPart(Abs(a.v)), OddPart(Abs(b.v)),
                       TrailingZeros(Abs(a.v)) - TrailingZeros(Abs(b.v)) + FracBits))

\* a < b, a > b, a >= b, a <= b: false as soon as one side is NaN
Lt(a, b) ==
  /\ ~IsNaN(a) /\ ~IsNaN(b)
  /\ IF IsInf(a) THEN a.v < 0 /\ b # a
     ELSE IF IsInf(b) THEN b.v > 0
     ELSE a.v < b.v
Gt(a, b) == Lt(b, a)
Ge(a, b) == ~IsNaN(a) /\ ~IsNaN(b) /\ ~Lt(a, b)
Le(a, b) == Ge(b, a)

\* Math.max(a, b), Math.min(a, b)
MathMax(a, b) == IF IsNaN(a) \/ IsNaN(b) THEN NaN ELSE IF Lt(a, b) THEN b ELSE a
MathMin(a, b) == IF IsNaN(a) \/ IsNaN(b) THEN NaN ELSE IF Lt(b, a) THEN b ELSE a

\* ------------------------------------------------------------ types.ts
USD == "USD"
MXN == "MXN"
Currency == {USD, MXN}

\* sales.reduce((acc, s) => acc + s.price, 0): left to right from 0
RECURSIVE reduce(_, _)
reduce(sales, acc) ==
  IF sales = << >> THEN acc
  ELSE reduce(Tail(sales), Add(acc, ToNumber(Head(sales).price)))

totalInvestmentUsdOf(config) == Add(config.investmentUsd, config.additionalExpensesUsd)

totalInvestmentMxnOf(totalInvestmentUsd, config) ==
  Mul(totalInvestmentUsd, config.exchangeRate)

remainingInvestmentUsdOf(totalInvestmentUsd, totalRevenueUsd) ==
  MathMax(Zero, Sub(totalInvestmentUsd, totalRevenueUsd))

piecesSoldOf(sales) == Num(Len(sales))

\* faulty variant: the remaining pieces are clamped at 0
remainingPiecesOf_clamped(config, piecesSold) ==
  MathMax(Zero, Sub(config.totalPieces, piecesSold))

remainingPiecesOf(config, piecesSold) == Sub(config.totalPieces, piecesSold)

dynamicCostPerPieceUsdOf(remainingInvestmentUsd, remainingPieces) ==
  IF Gt(remainingPieces, Zero)
  THEN Div(remainingInvestmentUsd, remainingPieces)
  ELSE Zero

\* faulty variant: the recovered capital is not capped at the investment
capitalRecoveredUsdOf_uncapped(totalRevenueUsd, totalInvestmentUsd) == totalRevenueUsd

capitalRecoveredUsdOf(totalRevenueUsd, totalInvestmentUsd) ==
  MathMin(totalRevenueUsd, totalInvestmentUsd)

\* faulty variant: the profit is the plain difference, a loss while recovering
netProfitUsdOf_unclamped(totalRevenueUsd, totalInvestmentUsd) ==
  Sub(totalRevenueUsd, totalInvestmentUsd)

netProfitUsdOf(totalRevenueUsd, totalInvestmentUsd) ==
  MathMax(Zero, Sub(totalRevenueUsd, totalInvestmentUsd))

recoveryProgressOf(capitalRecoveredUsd, totalInvestmentUsd) ==
  Mul(Div(capitalRecoveredUsd, totalInvestmentUsd), Num(100))

\* faulty variant: the division guarded as the dynamic cost's is
initialCostPerPieceUsdOf_guarded(totalInvestmentUsd, config) ==
  IF Gt(config.totalPieces, Zero)
  THEN Div(totalInvestmentUsd, config.totalPieces)
  ELSE Zero

initialCostPerPieceUsdOf(totalInvestmentUsd, config) ==
  Div(totalInvestmentUsd, config.totalPieces)

\* faulty variant: the margin of the first sale of the log instead of the average
averageMarginUsdOf_firstSale(sales, totalRevenueUsd, initialCostPerPieceUsd) ==
  IF Len(sales) > 0
  THEN Sub(Head(sales).price, initialCostPerPieceUsd)
  ELSE Zero

averageMarginUsdOf(sales, totalRevenueUsd, initialCostPerPieceUsd) ==
  IF Len(sales) > 0
  THEN Sub(Div(totalRevenueUsd, Num(Len(sales))), initialCostPerPieceUsd)
  ELSE Zero

targetRevenueUsdOf(totalInvestmentUsd, config) ==
  Mul(totalInvestmentUsd, config.targetMultiplier)

\* faulty variant: the progress stops at 100
progressToTargetOf_capped(totalRevenueUsd, targetRevenueUsd) ==
  MathMin(Num(100), Mul(Div(totalRevenueUsd, targetRevenueUsd), Num(100)))

progressToTargetOf(totalRevenueUsd, targetRevenueUsd) ==
  Mul(Div(totalRevenueUsd, targetRevenueUsd), Num(100))

\* faulty variant: strict comparison
isROIReachedOf_strict(totalRevenueUsd, totalInvestmentUsd) ==
  Gt(totalRevenueUsd, totalInvestmentUsd)

\* faulty variant: the comparison is the wrong way round
isROIReachedOf_inverted(totalRevenueUsd, totalInvestmentUsd) ==
  Ge(totalInvestmentUsd, totalRevenueUsd)

isROIReachedOf(totalRevenueUsd, totalInvestmentUsd) ==
  Ge(totalRevenueUsd, totalInvestmentUsd)

calculateFinancials(config, sales) ==
  LET totalInvestmentUsd == totalInvestmentUsdOf(config)
      totalInvestmentMxn == totalInvestmentMxnOf(totalInvestmentUsd, config)
      totalRevenueUsd == reduce(sales, Zero)
      remainingInvestmentUsd ==
        remainingInvestmentUsdOf(totalInvestmentUsd, totalRevenueUsd)
      piecesSold == piecesSoldOf(sales)
      remainingPieces == remainingPiecesOf(config, piecesSold)
      dynamicCostPerPieceUsd ==
        dynamicCostPerPieceUsdOf(remainingInvestmentUsd, remainingPieces)
      capitalRecoveredUsd == capitalRecoveredUsdOf(totalRevenueUsd, totalInvestmentUsd)
      netProfitUsd == netProfitUsdOf(totalRevenueUsd, totalInvestmentUsd)
      recoveryProgress == recoveryProgressOf(capitalRecoveredUsd, totalInvestmentUsd)
      initialCostPerPieceUsd == initialCostPerPieceUsdOf(totalInvestmentUsd, config)
      averageMarginUsd ==
        averageMarginUsdOf(sales, totalRevenueUsd, initialCostPerPieceUsd)
      targetRevenueUsd == targetRevenueUsdOf(totalInvestmentUsd, config)
      progressToTarget == progressToTargetOf(totalRevenueUsd, targetRevenueUsd)
      isROIReached == isROIReachedOf(totalRevenueUsd, totalInvestmentUsd)
  IN  [ totalInvestmentUsd     |-> totalInvestmentUsd,
        totalInvestmentMxn     |-> totalInvestmentMxn,
        totalRevenueUsd        |-> totalRevenueUsd,
        remainingInvestmentUsd |-> remainingInvestmentUsd,
        piecesSold             |-> piecesSold,
        remainingPieces        |-> remainingPieces,
        dynamicCostPerPieceUsd |-> dynamicCostPerPieceUsd,
        capitalRecoveredUsd    |-> capitalRecoveredUsd,
        netProfitUsd           |-> netProfitUsd,
        recoveryProgress       |-> recoveryProgress,
        initialCostPerPieceUsd |-> initialCostPerPieceUsd,
        averageMarginUsd       |-> averageMarginUsd,
        targetRevenueUsd       |-> targetRevenueUsd,
        progressToTarget       |-> progressToTarget,
        isROIReached           |-> isROIReached ]

\* ------------------------------------------------------------ input texts
\* The text of an <input type="number"> is a decimal n/d, written <<n, d>>;
\* the empty (or unparsable) text is EmptyText.
EmptyText == <<0, 0>>

\* parseFloat(text): the nearest number, NaN for the empty text
parseFloat(text) ==
  IF text[2] = 0 THEN NaN
  ELSE IF text[1] = 0 THEN Zero
  ELSE Signed(Sgn(text[1]), RoundPos(Abs(text[1]), text[2], FracBits))

\* parseInt(text): the integer part, NaN for the empty text
parseInt(text) ==
  IF text[2] = 0 THEN NaN
  ELSE Num(Sgn(text[1]) * (Abs(text[1]) \div text[2]))

\* x || d: d when x is falsy (0 or NaN)
OrElse(x, d) == IF IsNaN(x) \/ x = Zero THEN d ELSE x

\* ------------------------------------------------------------ bounds of the model
\* Spec: every handler of the application, over few values each.  The extra
\* expenses keep the value 0 here (typed as "" or as "0"); SpecLedger below
\* is where they vary.
MaxSales == 2
MaxIds == 2

InvestmentTexts == {EmptyText, <<1250, 1>>}
ExpensesTexts == {EmptyText, <<0, 1>>}
RateTexts == {EmptyText, <<39, 2>>}
PiecesTexts == {EmptyText, <<250, 1>>}
PriceTexts == {EmptyText, <<39, 1>>}
SimPriceTexts == {EmptyText, <<39, 1>>}
Clients == {"", "Ana"}
Methods == {"Efectivo"}
Dates == {"2024-01-01"}
TargetMultipliers == {2, 3}

\* SpecLedger: the sales log grown by recorded sales under a restored config.
MaxLedgerSales == 3

LedgerPriceTexts == {EmptyText, <<1, 2>>, <<1250, 1>>, <<-1, 1>>}
LedgerInvestmentTexts == {EmptyText, <<1250, 1>>}
LedgerExpensesTexts == {EmptyText, <<1, 1>>}
LedgerRateTexts == {<<39, 2>>}
LedgerPiecesTexts == {EmptyText, <<1, 1>>, <<250, 1>>}
LedgerMultipliers == {2}

\* ------------------------------------------------------------ localStorage
\* An entry of localStorage is absent, holds a JSON text, or holds a text that
\* is not JSON.  A JSON text is kept as the value it denotes: JSON.stringify
\* writes a finite number in digits that JSON.parse reads back as the same
\* number, and writes NaN and the infinities as null.
NoItem == [kind |-> "none", doc |-> << >>]
Garbage == [kind |-> "garbage", doc |-> << >>]
Item(doc) == [kind |-> "json", doc |-> doc]

JSONstringifyNumber(x) == IF IsFin(x) THEN x ELSE Null

JSONstringifyConfig(c) == [f \in DOMAIN c |-> JSONstringifyNumber(c[f])]

JSONstringifySale(s) ==
  [s EXCEPT !.price = JSONstringifyNumber(@),
            !.realCostAtSale = JSONstringifyNumber(@)]

JSONstringifySales(list) == [i \in 1..Len(list) |-> JSONstringifySale(list[i])]

\* localStorage.setItem('pallet_config', JSON.stringify(config));
\* localStorage.setItem('pallet_sales', JSON.stringify(sales));
setItems(c, list) ==
  [ pallet_config |-> Item(JSONstringifyConfig(c)),
    pallet_sales  |-> Item(JSONstringifySales(list)) ]

\* ------------------------------------------------------------ App.tsx
VARIABLES config, sales, displayCurrency, newSale, simPrice, stats, nextId,
          localStorage, app, workbook

vars == <<config, sales, displayCurrency, newSale, simPrice, stats, nextId,
          localStorage, app, workbook>>

\* no report has been written yet
noWorkbook == [written |-> FALSE]

defaultConfig ==
  [ investmentUsd         |-> Num(1250),
    exchangeRate          |-> parseFloat(<<39, 2>>),
    totalPieces           |-> Num(250),
    additionalExpensesUsd |-> Zero,
    targetMultiplier      |-> Num(2) ]

\* the form's initial and reset value; date is the day of the reset
emptySale(today) ==
  [ price |-> Zero, client |-> "", method |-> "Efectivo", date |-> today ]

Init ==
  /\ config = defaultConfig
  /\ sales = << >>
  /\ displayCurrency = MXN
  /\ \E today \in Dates : newSale = emptySale(today)
  /\ simPrice = Zero
  /\ stats = calculateFinancials(config, sales)
  /\ nextId = 1
  /\ localStorage = setItems(config, sales)
  /\ app = "running"
  /\ workbook = noWorkbook

\* The render that follows a state update, and its effect:
\* useMemo(() => calculateFinancials(config, sales), [config, sales]) and
\* useEffect(() => { localStorage.setItem(...) }, [config, sales])
Render ==
  /\ stats' = calculateFinancials(config', sales')
  /\ localStorage' = setItems(config', sales')

\* faulty variant: the amount is multiplied by the rate instead of divided
priceInUsd_multiplied(amount) ==
  IF displayCurrency = MXN THEN Mul(amount, config.exchangeRate) ELSE amount

priceInUsd(amount) ==
  IF displayCurrency = MXN THEN Div(amount, config.exchangeRate) ELSE amount

\* faulty variant: the cost is taken from the log that already holds the new sale
newSaleRecord_costAfterInsertion(id) ==
  LET unstamped == [ id             |-> id,
                     date           |-> newSale.date,
                     price          |-> priceInUsd(newSale.price),
                     method         |-> newSale.method,
                     client         |-> newSale.client,
                     realCostAtSale |-> Zero ]
  IN  [unstamped EXCEPT !.realCostAtSale =
         calculateFinancials(config, Append(sales, unstamped)).dynamicCostPerPieceUsd]

\* const sale: Sale = { id: crypto.randomUUID(), ...newSale, price: priceInUsd,
\*                      realCostAtSale: stats.dynamicCostPerPieceUsd }
\* crypto.randomUUID() is taken to return an id never returned before: id.
newSaleRecord(id) ==
  [ id             |-> id,
    date           |-> newSale.date,
    price          |-> priceInUsd(newSale.price),
    method         |-> newSale.method,
    client         |-> newSale.client,
    realCostAtSale |-> stats.dynamicCostPerPieceUsd ]

\* faulty variant: recording a sale re-stamps the sales already in the log with the
\* current cost
handleAddSale_restampLog(maxSales, maxIds) ==
  /\ newSale.price # Zero
  /\ Len(sales) < maxSales
  /\ nextId <= maxIds
  /\ sales' = Append([i \in 1..Len(sales) |->
                        [sales[i] EXCEPT !.realCostAtSale = stats.dynamicCostPerPieceUsd]],
                     newSaleRecord(nextId))
  /\ nextId' = nextId + 1
  /\ \E today \in Dates : newSale' = emptySale(today)
  /\ UNCHANGED <<config, displayCurrency, simPrice, app, workbook>>
  /\ Render

\* faulty variant: the id is the position of the sale in the log, not a fresh one
handleAddSale_idFromPosition(maxSales, maxIds) ==
  /\ newSale.price # Zero
  /\ Len(sales) < maxSales
  /\ nextId <= maxIds
  /\ sales' = Append(sales, newSaleRecord(Len(sales) + 1))
  /\ UNCHANGED nextId
  /\ \E today \in Dates : newSale' = emptySale(today)
  /\ UNCHANGED <<config, displayCurrency, simPrice, app, workbook>>
  /\ Render

\* the form's submit: the browser refuses an empty required field, and the price
\* field shows empty when newSale.price is 0 (value={newSale.price || ''})
handleAddSale(maxSales, maxIds) ==
  /\ newSale.price # Zero
  /\ Len(sales) < maxSales
  /\ nextId <= maxIds
  /\ sales' = Append(sales, newSaleRecord(nextId))
  /\ nextId' = nextId + 1
  /\ \E today \in Dates : newSale' = emptySale(today)
  /\ UNCHANGED <<config, displayCurrency, simPrice, app, workbook>>
  /\ Render

\* faulty variant: the test of the filter is inverted
filter_keepMatching(list, id) == SelectSeq(list, LAMBDA s : s.id = id)

\* sales.filter(s => s.id !== id)
filter(list, id) == SelectSeq(list, LAMBDA s : s.id # id)

\* deleteSale(id), with the answer given to confirm(...)
deleteSaleOn(id, confirmed) ==
  /\ sales' = IF confirmed THEN filter(sales, id) ELSE sales
  /\ UNCHANGED <<config, displayCurrency, newSale, simPrice, nextId, app, workbook>>
  /\ Render

\* onClick={() => deleteSale(sale.id)} on a row of the table
deleteSale ==
  \E i \in 1..Len(sales), confirmed \in BOOLEAN : deleteSaleOn(sales[i].id, confirmed)

setDisplayCurrency ==
  /\ \E c \in Currency : displayCurrency' = c
  /\ UNCHANGED <<config, sales, newSale, simPrice, stats, nextId, localStorage, app, workbook>>

\* onChange of the simulator's price input
setSimPriceOf(texts) ==
  /\ \E text \in texts : simPrice' = OrElse(parseFloat(text), Zero)
  /\ UNCHANGED <<config, sales, displayCurrency, newSale, stats, nextId, localStorage, app, workbook>>

\* faulty variant: the simulated price is logged as a sale
setSimPrice_logged ==
  /\ \E text \in SimPriceTexts : simPrice' = OrElse(parseFloat(text), Zero)
  /\ sales' = IF Len(sales) < MaxSales
              THEN Append(sales, [newSaleRecord(0) EXCEPT !.price = simPrice'])
              ELSE sales
  /\ UNCHANGED <<config, displayCurrency, newSale, nextId, app, workbook>>
  /\ Render

setSimPrice == setSimPriceOf(SimPriceTexts)

setNewSalePrice(texts) ==
  /\ \E text \in texts :
       newSale' = [newSale EXCEPT !.price = OrElse(parseFloat(text), Zero)]
  /\ UNCHANGED <<config, sales, displayCurrency, simPrice, stats, nextId, localStorage, app, workbook>>

setNewSaleMethod ==
  /\ \E m \in Methods : newSale' = [newSale EXCEPT !.method = m]
  /\ UNCHANGED <<config, sales, displayCurrency, simPrice, stats, nextId, localStorage, app, workbook>>

setNewSaleDate ==
  /\ \E d \in Dates : newSale' = [newSale EXCEPT !.date = d]
  /\ UNCHANGED <<config, sales, displayCurrency, simPrice, stats, nextId, localStorage, app, workbook>>

setNewSaleClient ==
  /\ \E c \in Clients : newSale' = [newSale EXCEPT !.client = c]
  /\ UNCHANGED <<config, sales, displayCurrency, simPrice, stats, nextId, localStorage, app, workbook>>

setInvestmentUsdOf(texts) ==
  /\ \E text \in texts :
       config' = [config EXCEPT !.investmentUsd = OrElse(parseFloat(text), Zero)]
  /\ UNCHANGED <<sales, displayCurrency, newSale, simPrice, nextId, app, workbook>>
  /\ Render

setInvestmentUsd == setInvestmentUsdOf(InvestmentTexts)

\* faulty variant: the fallback of the other fields (|| 0)
setExchangeRateOf_orZero(texts) ==
  /\ \E text \in texts :
       config' = [config EXCEPT !.exchangeRate = OrElse(parseFloat(text), Zero)]
  /\ UNCHANGED <<sales, displayCurrency, newSale, simPrice, nextId, app, workbook>>
  /\ Render

setExchangeRateOf(texts) ==
  /\ \E text \in texts :
       config' = [config EXCEPT !.exchangeRate = OrElse(parseFloat(text), Num(1))]
  /\ UNCHANGED <<sales, displayCurrency, newSale, simPrice, nextId, app, workbook>>
  /\ Render

setExchangeRate == setExchangeRateOf(RateTexts)

setTotalPiecesOf(texts) ==
  /\ \E text \in texts :
       config' = [config EXCEPT !.totalPieces = OrElse(parseInt(text), Zero)]
  /\ UNCHANGED <<sales, displayCurrency, newSale, simPrice, nextId, app, workbook>>
  /\ Render

setTotalPieces == setTotalPiecesOf(PiecesTexts)

setAdditionalExpensesUsdOf(texts) ==
  /\ \E text \in texts :
       config' = [config EXCEPT !.additionalExpensesUsd = OrElse(parseFloat(text), Zero)]
  /\ UNCHANGED <<sales, displayCurrency, newSale, simPrice, nextId, app, workbook>>
  /\ Render

setAdditionalExpensesUsd == setAdditionalExpensesUsdOf(ExpensesTexts)

setTargetMultiplier ==
  /\ \E num \in TargetMultipliers :
       config' = [config EXCEPT !.targetMultiplier = Num(num)]
  /\ UNCHANGED <<sales, displayCurrency, newSale, simPrice, nextId, app, workbook>>
  /\ Render

\* faulty variant: a confirmed reset also puts the config back to its defaults
resetSalesOn_withConfig(confirmed) ==
  /\ sales' = IF confirmed THEN << >> ELSE sales
  /\ config' = IF confirmed THEN defaultConfig ELSE config
  /\ UNCHANGED <<displayCurrency, newSale, simPrice, nextId, app, workbook>>
  /\ Render

\* confirm('...') && setSales([]), on the answer given to the dialog
resetSalesOn(confirmed) ==
  /\ sales' = IF confirmed THEN << >> ELSE sales
  /\ UNCHANGED <<config, displayCurrency, newSale, simPrice, nextId, app, workbook>>
  /\ Render

resetSales == \E confirmed \in BOOLEAN : resetSalesOn(confirmed)

\* Intl.NumberFormat(..., {style: 'currency'}).format(amount) writes the amount
\* rounded to the cent, halves away from zero, and NaN and the infinities by
\* name.  DisplayUnit is the cent of the model's numbers: as 0.01 is to a
\* double, it is far coarser than the rounding of one operation on an everyday
\* amount and finer than the rounding of a very large one.
DisplayUnit == 2 ^ (Precision - 6)

toCents(v) == Sgn(v) * ((2 * Abs(v) + DisplayUnit * (2 ^ FracBits))
                          \div (2 * DisplayUnit * (2 ^ FracBits)))

formatCurrency(amount, currency) ==
  IF IsFin(ToNumber(amount))
  THEN [currency |-> currency, digits |-> toCents(ToNumber(amount).v)]
  ELSE [currency |-> currency, digits |-> amount.k, sign |-> amount.v]

\* displayVal called without overrideCurrency
undefined == ""

\* faulty variant: the amount is shown as stored whatever the currency
displayVal_unconverted(usdAmount, overrideCurrency) ==
  LET curr == IF overrideCurrency # undefined THEN overrideCurrency ELSE displayCurrency
  IN  formatCurrency(usdAmount, curr)

\* const curr = overrideCurrency || displayCurrency
\* const val = curr === Currency.USD ? usdAmount : usdAmount * config.exchangeRate
\* return formatCurrency(val, curr)
displayVal(usdAmount, overrideCurrency) ==
  LET curr == IF overrideCurrency # undefined THEN overrideCurrency ELSE displayCurrency
      val == IF curr = USD THEN usdAmount ELSE Mul(usdAmount, config.exchangeRate)
  IN  formatCurrency(val, curr)

\* ExportButton: the workbook is built from config and sales and written to a
\* file; no state of the application is set
summaryData(cfg, st) ==
  << <<"PALLET PROFIT MASTER - REPORTE GENERAL">>,
     <<"">>,
     <<"CONCEPTO", "VALOR USD", "VALOR MXN">>,
     <<"Inversión Inicial", cfg.investmentUsd, Mul(cfg.investmentUsd, cfg.exchangeRate)>>,
     <<"Gastos Adicionales", cfg.additionalExpensesUsd,
       Mul(cfg.additionalExpensesUsd, cfg.exchangeRate)>>,
     <<"Inversión Total", st.totalInvestmentUsd, st.totalInvestmentMxn>>,
     <<"Tipo de Cambio", cfg.exchangeRate, "1.00">>,
     <<"">>,
     <<"ESTADO ACTUAL", "VALOR USD", "VALOR MXN">>,
     <<"Total Vendido", st.totalRevenueUsd, Mul(st.totalRevenueUsd, cfg.exchangeRate)>>,
     <<"Capital Recuperado", st.capitalRecoveredUsd,
       Mul(st.capitalRecoveredUsd, cfg.exchangeRate)>>,
     <<"Capital Pendiente", st.remainingInvestmentUsd,
       Mul(st.remainingInvestmentUsd, cfg.exchangeRate)>>,
     <<"Ganancia Neta", st.netProfitUsd, Mul(st.netProfitUsd, cfg.exchangeRate)>>,
     <<"">>,
     <<"INVENTARIO", "CANTIDAD", "VALOR">>,
     <<"Piezas Iniciales", cfg.totalPieces, "">>,
     <<"Piezas Vendidas", st.piecesSold, "">>,
     <<"Piezas Restantes", st.remainingPieces, "">>,
     <<"Costo Real por Pieza", st.dynamicCostPerPieceUsd,
       Mul(st.dynamicCostPerPieceUsd, cfg.exchangeRate)>> >>

salesHeader ==
  <<"FECHA", "CLIENTE", "MÉTODO PAGO", "PRECIO VENTA (USD)", "COSTO MOMENTO (USD)",
    "GANANCIA (USD)", "CAPITAL PENDIENTE (USD)">>

\* faulty variant: the profit column is the plain difference
salesRow_unclamped(s) ==
  << s.date,
     IF s.client # "" THEN s.client ELSE "General",
     s.method,
     s.price,
     s.realCostAtSale,
     Sub(ToNumber(s.price), ToNumber(s.realCostAtSale)),
     Zero >>

\* s => [s.date, s.client || 'General', s.method, s.price, s.realCostAtSale,
\*       Math.max(0, s.price - s.realCostAtSale), 0]
salesRow(s) ==
  << s.date,
     IF s.client # "" THEN s.client ELSE "General",
     s.method,
     s.price,
     s.realCostAtSale,
     MathMax(Zero, Sub(ToNumber(s.price), ToNumber(s.realCostAtSale))),
     Zero >>

\* [header, ...sales.map(s => [...])]
salesData(list) == <<salesHeader>> \o [i \in 1..Len(list) |-> salesRow(list[i])]

\* book_new, two aoa_to_sheet, two book_append_sheet, writeFile
writeFile(summary, ledger, today) ==
  [ written    |-> TRUE,
    SheetNames |-> <<"Resumen General", "Historial de Ventas">>,
    Sheets     |-> <<summary, ledger>>,
    name       |-> <<"Reporte_Pallet_", today, ".xlsx">> ]

handleExport ==
  /\ \E today \in Dates :
       workbook' = writeFile(summaryData(config, calculateFinancials(config, sales)),
                             salesData(sales), today)
  /\ UNCHANGED <<config, sales, displayCurrency, newSale, simPrice, stats, nextId,
                 localStorage, app>>

\* const priceInUsd = displayCurrency === Currency.MXN
\*   ? simPrice / config.exchangeRate : simPrice
simPriceInUsd ==
  IF displayCurrency = MXN THEN Div(simPrice, config.exchangeRate) ELSE simPrice

\* if (simPrice <= 0) return null
noSimResults == [null |-> TRUE]

\* stats.totalRevenueUsd + (stats.remainingPieces * priceInUsd)
projectedTotalRev(priceUsd) ==
  Add(stats.totalRevenueUsd, Mul(stats.remainingPieces, priceUsd))

\* faulty variant: the pieces sold are projected instead of the remaining ones
simResults_piecesSold ==
  IF Le(simPrice, Zero) THEN noSimResults
  ELSE LET sold == Add(stats.totalRevenueUsd, Mul(stats.piecesSold, simPriceInUsd))
       IN  [ profitPerPiece |->
               MathMax(Zero, Sub(simPriceInUsd, stats.dynamicCostPerPieceUsd)),
             totalRevenue   |-> sold,
             totalNetProfit |-> Sub(sold, stats.totalInvestmentUsd),
             isTargetMet    |-> Ge(sold, stats.targetRevenueUsd) ]

\* faulty variant: the projected net profit is clamped at 0
simResults_clamped ==
  IF Le(simPrice, Zero) THEN noSimResults
  ELSE [ profitPerPiece |->
           MathMax(Zero, Sub(simPriceInUsd, stats.dynamicCostPerPieceUsd)),
         totalRevenue   |-> projectedTotalRev(simPriceInUsd),
         totalNetProfit |->
           MathMax(Zero, Sub(projectedTotalRev(simPriceInUsd), stats.totalInvestmentUsd)),
         isTargetMet    |->
           Ge(projectedTotalRev(simPriceInUsd), stats.targetRevenueUsd) ]

\* simResults of App.tsx
simResults ==
  IF Le(simPrice, Zero) THEN noSimResults
  ELSE [ profitPerPiece |->
           MathMax(Zero, Sub(simPriceInUsd, stats.dynamicCostPerPieceUsd)),
         totalRevenue   |-> projectedTotalRev(simPriceInUsd),
         totalNetProfit |->
           Sub(projectedTotalRev(simPriceInUsd), stats.totalInvestmentUsd),
         isTargetMet    |->
           Ge(projectedTotalRev(simPriceInUsd), stats.targetRevenueUsd) ]

\* faulty variant: the new cost is spread over the pieces left before the sale
simResultsModal_sameCount ==
  IF Le(simPrice, Zero) THEN noSimResults
  ELSE LET newRemainingInvUsd ==
             MathMax(Zero, Sub(stats.remainingInvestmentUsd, simPriceInUsd))
           newDynamicCostUsd ==
             IF Gt(stats.remainingPieces, Zero)
             THEN Div(newRemainingInvUsd, stats.remainingPieces)
             ELSE Zero
       IN  [ profit                |->
               MathMax(Zero, Sub(simPriceInUsd, stats.dynamicCostPerPieceUsd)),
             remainingInv          |-> newRemainingInvUsd,
             dynamicCost           |-> newDynamicCostUsd,
             diffCost              |-> Sub(newDynamicCostUsd, stats.dynamicCostPerPieceUsd),
             projectedTotalRevenue |-> projectedTotalRev(simPriceInUsd),
             projectedNetProfit    |->
               Sub(projectedTotalRev(simPriceInUsd), stats.totalInvestmentUsd),
             meetsTarget           |->
               Ge(projectedTotalRev(simPriceInUsd), stats.targetRevenueUsd) ]

\* simResults of the other variant of the application (the simulation modal)
simResultsModal ==
  IF Le(simPrice, Zero) THEN noSimResults
  ELSE LET profitForThisPiece ==
             MathMax(Zero, Sub(simPriceInUsd, stats.dynamicCostPerPieceUsd))
           newRemainingInvUsd ==
             MathMax(Zero, Sub(stats.remainingInvestmentUsd, simPriceInUsd))
           newPiecesRemaining == MathMax(Zero, Sub(stats.remainingPieces, Num(1)))
           newDynamicCostUsd ==
             IF Gt(newPiecesRemaining, Zero)
             THEN Div(newRemainingInvUsd, newPiecesRemaining)
             ELSE Zero
           projectedTotalRevenueUsd == projectedTotalRev(simPriceInUsd)
           projectedNetProfitUsd ==
             Sub(projectedTotalRevenueUsd, stats.totalInvestmentUsd)
           meetsTarget == Ge(projectedTotalRevenueUsd, stats.targetRevenueUsd)
       IN  [ profit                |-> profitForThisPiece,
             remainingInv          |-> newRemainingInvUsd,
             dynamicCost           |-> newDynamicCostUsd,
             diffCost              |-> Sub(newDynamicCostUsd, stats.dynamicCostPerPieceUsd),
             projectedTotalRevenue |-> projectedTotalRevenueUsd,
             projectedNetProfit    |-> projectedNetProfitUsd,
             meetsTarget           |-> meetsTarget ]

Next ==
  \/ handleAddSale(MaxSales, MaxIds)
  \/ deleteSale
  \/ setDisplayCurrency
  \/ setSimPrice
  \/ setNewSalePrice(PriceTexts)
  \/ setNewSaleMethod
  \/ setNewSaleDate
  \/ setNewSaleClient
  \/ setInvestmentUsd
  \/ setExchangeRate
  \/ setTotalPieces
  \/ setAdditionalExpensesUsd
  \/ setTargetMultiplier
  \/ resetSales

Spec == Init /\ [][Next]_vars

\* ------------------------------------------------------------ SpecLedger
\* useState(() => saved ? JSON.parse(saved) : {...}): a config saved by an
\* earlier session, i.e. one the settings handlers can have produced
LedgerConfigs ==
  { [ investmentUsd         |-> OrElse(parseFloat(i), Zero),
      exchangeRate          |-> OrElse(parseFloat(r), Num(1)),
      totalPieces           |-> OrElse(parseInt(p), Zero),
      additionalExpensesUsd |-> OrElse(parseFloat(a), Zero),
      targetMultiplier      |-> Num(m) ] :
    i \in LedgerInvestmentTexts, r \in LedgerRateTexts, p \in LedgerPiecesTexts,
    a \in LedgerExpensesTexts, m \in LedgerMultipliers }

InitLedger ==
  /\ config \in LedgerConfigs
  /\ sales = << >>
  /\ displayCurrency = MXN
  /\ \E today \in Dates : newSale = emptySale(today)
  /\ simPrice = Zero
  /\ stats = calculateFinancials(config, sales)
  /\ nextId = 1
  /\ localStorage = setItems(config, sales)
  /\ app = "running"
  /\ workbook = noWorkbook

NextLedger ==
  \/ setNewSalePrice(LedgerPriceTexts)
  \/ setDisplayCurrency
  \/ handleAddSale(MaxLedgerSales, MaxLedgerSales)

SpecLedger == InitLedger /\ [][NextLedger]_vars

\* ------------------------------------------------------------ SpecCalc
\* The function called on its own: inputs drawn at the start, then the call.
notComputed == [computed |-> FALSE]

CalcPrices == {parseFloat(t) : t \in LedgerPriceTexts \ {EmptyText}}

\* a logged sale; its cost stamp is 0 when it was recorded with no pieces left
CalcSale(i, price) ==
  [ id |-> i, date |-> "2024-01-01", price |-> price, method |-> "Efectivo",
    client |-> "", realCostAtSale |-> Zero ]

MaxCalcSales == 2

CalcSales ==
  UNION { { [i \in 1..n |-> CalcSale(i, ps[i])] : ps \in [1..n -> CalcPrices] } :
          n \in 0..MaxCalcSales }

InitCalc ==
  /\ config \in LedgerConfigs
  /\ sales \in CalcSales
  /\ displayCurrency = MXN
  /\ \E today \in Dates : newSale = emptySale(today)
  /\ simPrice = Zero
  /\ stats = notComputed
  /\ nextId = Len(sales) + 1
  /\ localStorage = setItems(config, sales)
  /\ app = "running"
  /\ workbook = noWorkbook

\* faulty variant: the sum consumes the array it walks (shift() instead of reduce)
callCalculateFinancials_consuming ==
  /\ stats' = calculateFinancials(config, sales)
  /\ sales' = << >>
  /\ UNCHANGED config
  /\ UNCHANGED <<displayCurrency, newSale, simPrice, nextId, localStorage, app, workbook>>

\* const stats = calculateFinancials(config, sales): the arguments are read,
\* never assigned (sales.reduce and sales.length do not modify the array)
callCalculateFinancials ==
  /\ stats' = calculateFinancials(config, sales)
  /\ UNCHANGED <<config, sales>>
  /\ UNCHANGED <<displayCurrency, newSale, simPrice, nextId, localStorage, app, workbook>>

NextCalc == callCalculateFinancials

SpecCalc == InitCalc /\ [][NextCalc]_vars

\* ------------------------------------------------------------ SpecDegenerate
\* calculateFinancials called on configurations with a zero among the piece
\* count, the target multiplier and the two investment amounts.
DegenerateConfigs ==
  { [ investmentUsd         |-> Num(i),
      exchangeRate          |-> defaultConfig.exchangeRate,
      totalPieces           |-> Num(p),
      additionalExpensesUsd |-> Num(a),
      targetMultiplier      |-> Num(m) ] :
    i \in {0, 1250}, p \in {0, 1, 250}, a \in {0, 250}, m \in {0, 2} }

InitDegenerate ==
  /\ config \in DegenerateConfigs
  /\ sales \in CalcSales
  /\ displayCurrency = MXN
  /\ \E today \in Dates : newSale = emptySale(today)
  /\ simPrice = Zero
  /\ stats = notComputed
  /\ nextId = Len(sales) + 1
  /\ localStorage = setItems(config, sales)
  /\ app = "running"
  /\ workbook = noWorkbook

NextDegenerate == callCalculateFinancials

SpecDegenerate == InitDegenerate /\ [][NextDegenerate]_vars

\* ------------------------------------------------------------ SpecExport
\* Sales logged and deleted under the default config, and the report exported
\* at any moment.
MaxExportSales == 2
MaxExportIds == 3

ExportPriceTexts == {EmptyText, <<39, 1>>, <<390, 1>>}

NextExport ==
  \/ setNewSalePrice(ExportPriceTexts)
  \/ setNewSaleClient
  \/ handleAddSale(MaxExportSales, MaxExportIds)
  \/ deleteSale
  \/ handleExport

SpecExport == Init /\ [][NextExport]_vars

\* ------------------------------------------------------------ SpecDelete
\* deleteSale called with any id, one of a logged sale or not, on logs built by
\* handleAddSale.
MaxDeleteSales == 3
MaxDeleteIds == 4

deleteSaleAnyId ==
  \E id \in 1..MaxDeleteIds, confirmed \in BOOLEAN : deleteSaleOn(id, confirmed)

NextDelete ==
  \/ setNewSalePrice(PriceTexts)
  \/ setNewSaleClient
  \/ handleAddSale(MaxDeleteSales, MaxDeleteIds)
  \/ deleteSaleAnyId

SpecDelete == Init /\ [][NextDelete]_vars

\* ------------------------------------------------------------ SpecRoi
\* Sales that take the revenue past the investment, then deletions, a reset
\* and edits of the investment.
MaxRoiSales == 2
MaxRoiIds == 3

RoiPriceTexts == {EmptyText, <<1521, 1>>, <<-1521, 1>>}
RoiInvestmentTexts == {<<39, 1>>, <<1250, 1>>}

NextRoi ==
  \/ setNewSalePrice(RoiPriceTexts)
  \/ handleAddSale(MaxRoiSales, MaxRoiIds)
  \/ deleteSale
  \/ resetSales
  \/ setInvestmentUsdOf(RoiInvestmentTexts)

SpecRoi == Init /\ [][NextRoi]_vars

\* ------------------------------------------------------------ SpecSim
\* The simulation modal opened over logs of up to two sales, in either display
\* currency, with few or many pieces in the pallet.
MaxSimSales == 2
MaxSimIds == 2

SimLogPriceTexts == {EmptyText, <<1, 2>>, <<39, 1>>}
SimModalPriceTexts == {EmptyText, <<1, 2>>, <<39, 1>>, <<1250, 1>>}
SimPiecesTexts == {<<2, 1>>, <<250, 1>>}

NextSim ==
  \/ setDisplayCurrency
  \/ setNewSalePrice(SimLogPriceTexts)
  \/ handleAddSale(MaxSimSales, MaxSimIds)
  \/ setSimPriceOf(SimModalPriceTexts)
  \/ setTotalPiecesOf(SimPiecesTexts)

SpecSim == Init /\ [][NextSim]_vars

\* ------------------------------------------------------------ SpecDisplay
\* Sales entered in either display currency, at amounts of whole cents (the
\* price input has step="0.01"), everyday ones and very large ones, shown
\* before and after edits of the exchange rate.
MaxDisplaySales == 2
MaxDisplayIds == 2

DisplayPriceTexts ==
  {EmptyText, <<200 * DisplayUnit, 1>>, <<203 * DisplayUnit, 1>>, <<628 * DisplayUnit, 1>>}
DisplayRateTexts == {EmptyText, <<39, 2>>, <<7, 1>>}

NextDisplay ==
  \/ setDisplayCurrency
  \/ setNewSalePrice(DisplayPriceTexts)
  \/ handleAddSale(MaxDisplaySales, MaxDisplayIds)
  \/ setExchangeRateOf(DisplayRateTexts)

SpecDisplay == Init /\ [][NextDisplay]_vars

\* ------------------------------------------------------------ SpecStore
\* The application closed and started again over what localStorage holds, and
\* the entries edited from outside the application while it is closed.
MaxStoreSales == 2
MaxStoreIds == 3

StorePriceTexts == {<<39, 1>>, <<16384, 1>>}
StoreRateTexts == {<<39, 2>>, <<1, 8>>}
StoreKeys == {"pallet_config", "pallet_sales"}

StoreConfigs ==
  { [defaultConfig EXCEPT !.exchangeRate = OrElse(parseFloat(r), Num(1))] :
    r \in StoreRateTexts }

\* JSON.parse(saved): the value the text denotes
JSONparse(item) == item.doc

\* saved ? JSON.parse(saved) : { investmentUsd: 1250, ... }
loadConfig ==
  IF localStorage.pallet_config.kind = "none" THEN defaultConfig
  ELSE JSONparse(localStorage.pallet_config)

\* saved ? JSON.parse(saved) : []
loadSales ==
  IF localStorage.pallet_sales.kind = "none" THEN << >>
  ELSE JSONparse(localStorage.pallet_sales)

\* the page is closed: the state of the component is gone, the entries stay
closeApp ==
  /\ app = "running"
  /\ app' = "closed"
  /\ UNCHANGED <<config, sales, displayCurrency, newSale, simPrice, stats, nextId,
                 localStorage, workbook>>

\* the page is opened: the useState initialisers run, then the first render and
\* its effect.  JSON.parse throws a SyntaxError on a text that is not JSON;
\* nothing catches it, so the component never mounts.
startApp ==
  /\ app # "running"
  /\ IF \E key \in StoreKeys : localStorage[key].kind = "garbage"
     THEN /\ app' = "failed"
          /\ UNCHANGED <<config, sales, displayCurrency, newSale, simPrice, stats,
                         nextId, localStorage, workbook>>
     ELSE /\ app' = "running"
          /\ config' = loadConfig
          /\ sales' = loadSales
          /\ displayCurrency' = MXN
          /\ \E today \in Dates : newSale' = emptySale(today)
          /\ simPrice' = Zero
          /\ UNCHANGED <<nextId, workbook>>
          /\ Render

\* outside the application: an entry is overwritten with a text that is not
\* JSON (another script of the origin, the developer tools, a truncated write)
corruptItem ==
  /\ app # "running"
  /\ \E key \in StoreKeys : localStorage' = [localStorage EXCEPT ![key] = Garbage]
  /\ UNCHANGED <<config, sales, displayCurrency, newSale, simPrice, stats, nextId, app, workbook>>

\* outside the application: an entry is removed
removeItem ==
  /\ app # "running"
  /\ \E key \in StoreKeys : localStorage' = [localStorage EXCEPT ![key] = NoItem]
  /\ UNCHANGED <<config, sales, displayCurrency, newSale, simPrice, stats, nextId, app, workbook>>

InitStore ==
  /\ config \in StoreConfigs
  /\ sales = << >>
  /\ displayCurrency = MXN
  /\ \E today \in Dates : newSale = emptySale(today)
  /\ simPrice = Zero
  /\ stats = calculateFinancials(config, sales)
  /\ nextId = 1
  /\ localStorage = setItems(config, sales)
  /\ app = "running"
  /\ workbook = noWorkbook

NextStore ==
  \/ app = "running" /\ setNewSalePrice(StorePriceTexts)
  \/ app = "running" /\ setDisplayCurrency
  \/ app = "running" /\ handleAddSale(MaxStoreSales, MaxStoreIds)
  \/ app = "running" /\ deleteSale
  \/ app = "running" /\ resetSales
  \/ app = "running" /\ setInvestmentUsd
  \/ closeApp
  \/ startApp
  \/ corruptItem
  \/ removeItem

SpecStore == InitStore /\ [][NextStore]_vars

\* ------------------------------------------------------------ SpecSettings
\* The settings modal on its own, over texts the number inputs accept: the
\* inputs carry no min attribute, so a negative number is a valid text.
SettingsTexts == {EmptyText, <<0, 1>>, <<5, 2>>, <<-5, 2>>}

NextSettings ==
  \/ setInvestmentUsdOf(SettingsTexts)
  \/ setExchangeRateOf(SettingsTexts)
  \/ setTotalPiecesOf(SettingsTexts)
  \/ setAdditionalExpensesUsdOf(SettingsTexts)
  \/ setTargetMultiplier

SpecSettings == Init /\ [][NextSettings]_vars

\* ------------------------------------------------------------ SpecRate
\* The exchange rate edited to any text the input accepts (empty, 0, a
\* positive or a negative number), between sales and simulations entered in
\* either display currency.
MaxRateSales == 2
MaxRateIds == 2

NextRate ==
  \/ setExchangeRateOf(SettingsTexts)
  \/ setDisplayCurrency
  \/ setNewSalePrice(PriceTexts)
  \/ handleAddSale(MaxRateSales, MaxRateIds)
  \/ setSimPriceOf(SimPriceTexts)

SpecRate == Init /\ [][NextRate]_vars

\* ------------------------------------------------------------ claims
\* units in the last place of the integer x (in quanta)
Ulp(x) == 2 ^ MaxInt(0, BitLen(Abs(x)) - Precision)

\* C1 as stated: whenever totalInvestmentUsd >= 0, capitalRecoveredUsd +
\* remainingInvestmentUsd is exactly totalInvestmentUsd.
C1_ExactBalance ==
  Ge(stats.totalInvestmentUsd, Zero) =>
    Add(stats.capitalRecoveredUsd, stats.remainingInvestmentUsd)
      = stats.totalInvestmentUsd

\* C1, amended: for totalInvestmentUsd >= 0 and a finite revenue and remaining
\* investment, capitalRecoveredUsd + remainingInvestmentUsd equals
\* totalInvestmentUsd exactly once revenue has reached the investment, and
\* otherwise within one unit in the last place of the larger of |investment|
\* and |revenue| (the two roundings of I - R and of R + (I - R)).
C1_BalanceWithinRounding ==
  LET I == stats.totalInvestmentUsd
      R == stats.totalRevenueUsd
      s == Add(stats.capitalRecoveredUsd, stats.remainingInvestmentUsd)
  IN  (Ge(I, Zero) /\ IsFin(I) /\ IsFin(R) /\ IsFin(stats.remainingInvestmentUsd)) =>
        /\ IsFin(s)
        /\ Ge(R, I) => s = I
        /\ Abs(s.v - I.v) <= Ulp(MaxInt(Abs(I.v), Abs(R.v)))

\* a recorded sale has left part of the investment open and the sum is rounded
C1_Witness ==
  /\ Len(sales) > 0
  /\ Gt(stats.totalRevenueUsd, Zero)
  /\ Lt(stats.totalRevenueUsd, stats.totalInvestmentUsd)
  /\ Add(stats.capitalRecoveredUsd, stats.remainingInvestmentUsd)
       # stats.totalInvestmentUsd
  /\ Abs(Add(stats.capitalRecoveredUsd, stats.remainingInvestmentUsd).v
           - stats.totalInvestmentUsd.v) = Ulp(stats.totalInvestmentUsd.v)

\* C2: isROIReached is (totalRevenueUsd >= totalInvestmentUsd) and netProfitUsd is
\* max(0, totalRevenueUsd - totalInvestmentUsd); when revenue equals investment
\* exactly, isROIReached is true while netProfitUsd, remainingInvestmentUsd and
\* dynamicCostPerPieceUsd are all 0.
C2_RoiAndProfit ==
  LET I == stats.totalInvestmentUsd
      R == stats.totalRevenueUsd
  IN  /\ stats.isROIReached = (~Lt(R, I) /\ ~IsNaN(R) /\ ~IsNaN(I))
      /\ stats.netProfitUsd
           = (IF IsNaN(R) \/ IsNaN(I) THEN NaN
              ELSE IF Gt(Add(R, Neg(I)), Zero) THEN Add(R, Neg(I)) ELSE Zero)
      /\ (R = I /\ IsFin(R)) =>
           /\ stats.isROIReached
           /\ stats.netProfitUsd = Zero
           /\ stats.remainingInvestmentUsd = Zero
           /\ stats.dynamicCostPerPieceUsd = Zero

\* revenue has reached a positive investment exactly (one sale of 1250 against 1250)
C2_Witness ==
  /\ Len(sales) > 0
  /\ Gt(stats.totalInvestmentUsd, Zero)
  /\ stats.totalRevenueUsd = stats.totalInvestmentUsd
  /\ stats.isROIReached

\* a step that appends one sale to the log
Appended == Len(sales') = Len(sales) + 1 /\ SubSeq(sales', 1, Len(sales)) = sales

InPercentRange(x) == Ge(x, Zero) /\ Le(x, Num(100))

\* C3 as stated: for a fixed config, after every append recoveryProgress is not
\* lower than before the append and lies in [0, 100].
C3_ProgressMonotoneBounded ==
  [][Appended =>
       /\ Ge(stats'.recoveryProgress, stats.recoveryProgress)
       /\ InPercentRange(stats'.recoveryProgress)]_vars

\* C3, amended: for a fixed config with a positive (finite) totalInvestmentUsd and
\* a log in which every sale, the appended one included, has a price >= 0,
\* after every append recoveryProgress is not lower than before the append and
\* lies in [0, 100].
C3_ProgressMonotoneForPositive ==
  [][(/\ Appended
      /\ config' = config
      /\ Gt(stats.totalInvestmentUsd, Zero) /\ IsFin(stats.totalInvestmentUsd)
      /\ \A i \in 1..Len(sales') : Ge(sales'[i].price, Zero)) =>
       /\ Ge(stats'.recoveryProgress, stats.recoveryProgress)
       /\ InPercentRange(stats'.recoveryProgress)]_vars

\* two sales at prices > 0 against a positive investment: the first left the
\* progress below 100, the second brought it to 100
C3_Witness ==
  /\ Len(sales) = 2
  /\ Gt(stats.totalInvestmentUsd, Zero)
  /\ \A i \in 1..2 : Gt(sales[i].price, Zero)
  /\ Lt(sales[1].price, stats.totalInvestmentUsd)
  /\ stats.recoveryProgress = Num(100)

\* C4: the sale recorded by handleAddSale carries as realCostAtSale the
\* dynamicCostPerPieceUsd of calculateFinancials on the current config and the
\* log as it was before the insertion, not the log that includes the new sale.
C4_CostFromLogBeforeInsertion ==
  [][Appended =>
       sales'[Len(sales')].realCostAtSale
         = calculateFinancials(config, sales).dynamicCostPerPieceUsd]_vars

\* a second sale was recorded and its stamp differs from the cost of the log that
\* includes it
C4_Witness ==
  /\ Len(sales) = 2
  /\ sales[2].realCostAtSale
       = calculateFinancials(config, SubSeq(sales, 1, 1)).dynamicCostPerPieceUsd
  /\ sales[2].realCostAtSale # calculateFinancials(config, sales).dynamicCostPerPieceUsd
  /\ sales[2].realCostAtSale # sales[1].realCostAtSale

\* C9: the price stored by handleAddSale is the entered amount divided by the
\* exchange rate of that moment when the display currency is MXN, and the entered
\* amount itself when it is USD.
C9_StoredPriceConversion ==
  [][Appended =>
       sales'[Len(sales')].price
         = (IF displayCurrency = USD THEN newSale.price
            ELSE Div(newSale.price, config.exchangeRate))]_vars

\* the log holds a sale entered as 39 in MXN at rate 19.5 (stored 2) and a sale
\* entered as 39 in USD (stored 39)
C9_Witness ==
  /\ Len(sales) = 2
  /\ \E i, j \in 1..2 : sales[i].price = Num(2) /\ sales[j].price = Num(39)

C6_ArgumentsUnchanged ==
  [][stats' # stats =>
       /\ \A f \in DOMAIN config : config'[f] = config[f]
       /\ Len(sales') = Len(sales)
       /\ \A i \in 1..Len(sales) : sales'[i] = sales[i]]_vars

\* the function has been called on a log of at least two sales
C6_Witness ==
  /\ stats # notComputed
  /\ Len(sales) >= 2
  /\ stats.piecesSold = Num(Len(sales))

\* the orders of a list of n elements, and a list taken in one of them
Perms(n) == { p \in [1..n -> 1..n] : \A i, j \in 1..n : p[i] = p[j] => i = j }
Permuted(list, p) == [i \in 1..Len(list) |-> list[p[i]]]

\* C8 as stated: for a fixed config, every permutation of the sales list gives
\* the same snapshot, all fifteen fields.
C8_OrderIndependent ==
  \A p \in Perms(Len(sales)) : calculateFinancials(config, Permuted(sales, p)) = stats

\* the sum of the absolute prices of a list, in quanta
RECURSIVE SumAbs(_)
SumAbs(list) == IF list = << >> THEN 0 ELSE Abs(Head(list).price.v) + SumAbs(Tail(list))

\* C8, amended: for a fixed config, every permutation of the log gives the same
\* piecesSold, remainingPieces, totalInvestmentUsd, totalInvestmentMxn,
\* initialCostPerPieceUsd and targetRevenueUsd; when its totalRevenueUsd and
\* that of the log are both finite they differ by at most 2 * (count - 1) units
\* in the last place of the sum of the absolute prices; and whenever the two
\* totalRevenueUsd are the same value, all fifteen fields are.
C8_OrderIndependentUpToRounding ==
  \A p \in Perms(Len(sales)) :
    LET other == calculateFinancials(config, Permuted(sales, p))
    IN  /\ \A f \in {"piecesSold", "remainingPieces", "totalInvestmentUsd",
                     "totalInvestmentMxn", "initialCostPerPieceUsd",
                     "targetRevenueUsd"} : other[f] = stats[f]
        /\ (IsFin(other.totalRevenueUsd) /\ IsFin(stats.totalRevenueUsd)) =>
             Abs(other.totalRevenueUsd.v - stats.totalRevenueUsd.v)
               <= 2 * MaxInt(0, Len(sales) - 1) * Ulp(SumAbs(sales))
        /\ other.totalRevenueUsd = stats.totalRevenueUsd => other = stats

\* three sales whose sum depends on the order: some permutation of the log gives
\* another totalRevenueUsd, and another one gives the same
C8_Witness ==
  /\ Len(sales) = 3
  /\ \E p \in Perms(3) :
       calculateFinancials(config, Permuted(sales, p)).totalRevenueUsd
         # stats.totalRevenueUsd
  /\ \E p \in Perms(3) :
       /\ Permuted(sales, p) # sales
       /\ calculateFinancials(config, Permuted(sales, p)) = stats

\* C10: remainingPieces is totalPieces - count(sales), not clamped;
\* dynamicCostPerPieceUsd is remainingInvestmentUsd / remainingPieces when
\* remainingPieces > 0 and 0 otherwise; with more sales in the log than
\* totalPieces, remainingPieces is negative and dynamicCostPerPieceUsd is 0.
C10_DynamicCost ==
  LET count == Len(sales) * (2 ^ FracBits) IN
  /\ IsFin(stats.remainingPieces)
  /\ stats.remainingPieces.v = config.totalPieces.v - count
  /\ stats.dynamicCostPerPieceUsd
       = (IF stats.remainingPieces.v > 0
          THEN Div(stats.remainingInvestmentUsd, stats.remainingPieces)
          ELSE Zero)
  /\ count > config.totalPieces.v =>
       /\ stats.remainingPieces.v < 0
       /\ stats.dynamicCostPerPieceUsd = Zero

\* a log of more sales than the pieces of the pallet, with investment still open
C10_Witness ==
  /\ Gt(config.totalPieces, Zero)
  /\ Len(sales) > 1
  /\ Lt(config.totalPieces, Num(Len(sales)))
  /\ Lt(stats.remainingPieces, Zero)
  /\ Gt(stats.remainingInvestmentUsd, Zero)
  /\ stats.dynamicCostPerPieceUsd = Zero

\* C11: capitalRecoveredUsd is the smaller of totalRevenueUsd and
\* totalInvestmentUsd, so it never exceeds totalInvestmentUsd whatever sales
\* are recorded.
C11_RecoveredCapped ==
  LET I == stats.totalInvestmentUsd
      R == stats.totalRevenueUsd
  IN  /\ Le(R, I) => stats.capitalRecoveredUsd = R
      /\ Gt(R, I) => stats.capitalRecoveredUsd = I
      /\ ~Gt(stats.capitalRecoveredUsd, I)

\* the recorded sales have brought in more than a positive investment
C11_Witness ==
  /\ Len(sales) >= 2
  /\ Gt(stats.totalInvestmentUsd, Zero)
  /\ Gt(stats.totalRevenueUsd, stats.totalInvestmentUsd)
  /\ stats.capitalRecoveredUsd = stats.totalInvestmentUsd

\* C12: while the application runs, after every mutation of config or sales the
\* entries 'pallet_config' and 'pallet_sales' hold the config and the sales in
\* memory, and starting the application again from these entries gives a config
\* and a sales list whose calculateFinancials snapshot is the current one.
C12_PersistedRoundTrip ==
  app = "running" =>
    /\ localStorage = setItems(config, sales)
    /\ calculateFinancials(loadConfig, loadSales) = stats

\* C13: when the application starts and the 'pallet_config' (or 'pallet_sales')
\* entry exists but cannot be parsed, the start does not fail: the application
\* runs with the default config (respectively the empty sales list).
C13_FallbackOnParseFailure ==
  [][(app = "closed" /\ app' # "closed") =>
       /\ app' = "running"
       /\ localStorage.pallet_config.kind = "garbage" => config' = defaultConfig
       /\ localStorage.pallet_sales.kind = "garbage" => sales' = << >>]_vars

\* C14: a confirmed reset replaces the sales log with the empty list and leaves
\* every field of config as it was; a declined reset leaves both the sales and
\* the config as they were.
C14_ResetFrame ==
  [][/\ resetSalesOn(TRUE) =>
          sales' = << >> /\ \A f \in DOMAIN config : config'[f] = config[f]
     /\ resetSalesOn(FALSE) =>
          sales' = sales /\ \A f \in DOMAIN config : config'[f] = config[f]]_vars

\* the log is empty again after two sales were recorded, under a config that
\* is no longer the default one
C14_Witness ==
  /\ sales = << >>
  /\ nextId >= 3
  /\ config # defaultConfig
  /\ stats.piecesSold = Zero

\* C15: the sales in the log have pairwise distinct ids, each recorded sale
\* having received an id that no sale recorded before it had.
C15_DistinctIds ==
  \A i, j \in 1..Len(sales) : sales[i].id = sales[j].id => i = j

\* a sale was recorded after an earlier one had been deleted, and the log holds
\* two sales
C15_Witness ==
  /\ Len(sales) = 2
  /\ sales[1].id # sales[2].id
  /\ nextId > 1 + Len(sales)

\* C16: computing a simulation for a hypothetical price, that is changing
\* simPrice, any number of times, leaves the sales log, the config and the
\* current snapshot as they were.
C16_SimulationFrame ==
  [][simPrice' # simPrice =>
       sales' = sales /\ config' = config /\ stats' = stats]_vars

\* a price is being simulated over a log that holds recorded sales
C16_Witness ==
  /\ simPrice # Zero
  /\ Len(sales) > 0
  /\ Gt(stats.totalRevenueUsd, Zero)

\* C17: for every snapshot and every hypothetical price > 0 (in the base
\* currency), the simulation gives profitPerPiece = max(0, price -
\* dynamicCostPerPieceUsd), projectedTotalRevenue = totalRevenueUsd +
\* remainingPieces * price, and meetsTarget exactly when projectedTotalRevenue
\* >= targetRevenueUsd.
C17_SimulationReference ==
  Gt(simPrice, Zero) =>
    LET price     == simPriceInUsd
        margin    == Add(price, Neg(stats.dynamicCostPerPieceUsd))
        profit    == IF Gt(margin, Zero) THEN margin ELSE Zero
        projected == Add(stats.totalRevenueUsd, Mul(stats.remainingPieces, price))
        meets     == ~Lt(projected, stats.targetRevenueUsd)
    IN  /\ simResults.profitPerPiece = profit
        /\ simResults.totalRevenue = projected
        /\ simResults.isTargetMet = meets
        /\ simResultsModal.profit = profit
        /\ simResultsModal.projectedTotalRevenue = projected
        /\ simResultsModal.meetsTarget = meets

\* a price above the current cost is simulated over a log with a recorded sale,
\* and the projection meets the target
C17_Witness ==
  /\ Gt(simPrice, Zero)
  /\ Len(sales) > 0
  /\ Gt(stats.dynamicCostPerPieceUsd, Zero)
  /\ Gt(simResults.profitPerPiece, Zero)
  /\ simResults.isTargetMet
  /\ Gt(stats.targetRevenueUsd, Zero)

\* C18 as stated: one of the two simulation variants clamps the projected net
\* profit at 0 and the other does not, so that they return different values
\* when the projected revenue is below the investment.
C18_VariantsDisagree ==
  (Gt(simPrice, Zero)
     /\ Lt(projectedTotalRev(simPriceInUsd), stats.totalInvestmentUsd)) =>
    simResults.totalNetProfit # simResultsModal.projectedNetProfit

\* C18, amended: the two simulation variants agree on the projected net profit:
\* both return projectedTotalRevenue - totalInvestmentUsd unclamped, which is
\* negative when the projected revenue is below the investment.
C18_VariantsAgreeUnclamped ==
  Gt(simPrice, Zero) =>
    LET projected == projectedTotalRev(simPriceInUsd)
        net       == Add(projected, Neg(stats.totalInvestmentUsd))
    IN  /\ simResults.totalNetProfit = net
        /\ simResultsModal.projectedNetProfit = net
        /\ Lt(projected, stats.totalInvestmentUsd) =>
             Lt(simResults.totalNetProfit, Zero)

\* a simulated price whose projected revenue stays below the investment: both
\* variants show the same loss
C18_Witness ==
  /\ Gt(simPrice, Zero)
  /\ Gt(stats.remainingPieces, Zero)
  /\ Lt(projectedTotalRev(simPriceInUsd), stats.totalInvestmentUsd)
  /\ Lt(simResults.totalNetProfit, Zero)
  /\ simResultsModal.projectedNetProfit = simResults.totalNetProfit

\* C19: in every state reached from the default config by settings edits,
\* investmentUsd >= 0, exchangeRate > 0, totalPieces >= 0,
\* additionalExpensesUsd >= 0 and targetMultiplier > 0.
C19_ConfigConstraints ==
  /\ Ge(config.investmentUsd, Zero)
  /\ Gt(config.exchangeRate, Zero)
  /\ Ge(config.totalPieces, Zero)
  /\ Ge(config.additionalExpensesUsd, Zero)
  /\ Gt(config.targetMultiplier, Zero)

\* C20: calculateFinancials returns a snapshot for every configuration, the
\* degenerate ones included.  The ratio fields are non-finite exactly when the
\* quantity they divide by is zero (initialCostPerPieceUsd, and averageMarginUsd
\* once a sale exists, for totalPieces = 0; recoveryProgress for
\* totalInvestmentUsd = 0; progressToTarget for targetRevenueUsd = 0, which is
\* targetMultiplier = 0 or totalInvestmentUsd = 0); every other field is a
\* finite number with its usual value.
C20_DegenerateConfig ==
  stats # notComputed =>
    LET I == Add(config.investmentUsd, config.additionalExpensesUsd)
        n == Num(Len(sales))
    IN  /\ IsFin(stats.initialCostPerPieceUsd) <=> config.totalPieces # Zero
        /\ IsFin(stats.averageMarginUsd) <=>
             (config.totalPieces # Zero \/ Len(sales) = 0)
        /\ IsFin(stats.recoveryProgress) <=> I # Zero
        /\ IsFin(stats.progressToTarget) <=>
             (I # Zero /\ config.targetMultiplier # Zero)
        /\ stats.totalInvestmentUsd = I
        /\ stats.totalInvestmentMxn = Mul(I, config.exchangeRate)
        /\ IsFin(stats.totalInvestmentMxn)
        /\ IsFin(stats.totalRevenueUsd)
        /\ stats.remainingInvestmentUsd =
             MathMax(Zero, Sub(I, stats.totalRevenueUsd))
        /\ stats.piecesSold = n
        /\ stats.remainingPieces = Sub(config.totalPieces, n)
        /\ IsFin(stats.dynamicCostPerPieceUsd)
        /\ ~Gt(stats.remainingPieces, Zero) => stats.dynamicCostPerPieceUsd = Zero
        /\ stats.capitalRecoveredUsd = MathMin(stats.totalRevenueUsd, I)
        /\ stats.netProfitUsd = MathMax(Zero, Sub(stats.totalRevenueUsd, I))
        /\ stats.targetRevenueUsd = Mul(I, config.targetMultiplier)
        /\ IsFin(stats.targetRevenueUsd)
        /\ stats.isROIReached = Ge(stats.totalRevenueUsd, I)

\* a snapshot computed with no pieces, no investment and a zero multiplier after
\* sales were logged: the four ratio fields are all non-finite
C20_Witness ==
  /\ stats # notComputed
  /\ Len(sales) >= 1
  /\ config.totalPieces = Zero
  /\ config.targetMultiplier = Zero
  /\ stats.totalInvestmentUsd = Zero
  /\ ~IsFin(stats.initialCostPerPieceUsd)
  /\ ~IsFin(stats.averageMarginUsd)
  /\ ~IsFin(stats.recoveryProgress)
  /\ ~IsFin(stats.progressToTarget)

\* C21: the ledger sheet the exporter writes has one row per sale of the log,
\* in log order, and the profit cell of each row is max(0, price -
\* realCostAtSale): the difference when the price exceeds the cost stamp, 0
\* otherwise, hence never negative.
C21_ExportedLedger ==
  [][workbook' # workbook =>
       LET rows == Tail(workbook'.Sheets[2])
       IN  /\ Len(rows) = Len(sales)
           /\ \A i \in 1..Len(sales) :
                /\ rows[i][1] = sales[i].date
                /\ rows[i][3] = sales[i].method
                /\ rows[i][4] = sales[i].price
                /\ rows[i][5] = sales[i].realCostAtSale
                /\ Gt(sales[i].price, sales[i].realCostAtSale) =>
                     rows[i][6] = Sub(sales[i].price, sales[i].realCostAtSale)
                /\ Le(sales[i].price, sales[i].realCostAtSale) =>
                     rows[i][6] = Zero
                /\ ~Lt(rows[i][6], Zero)]_vars

\* a report written for a log of two sales, one of them sold below its cost
\* stamp and one above
C21_Witness ==
  /\ workbook.written
  /\ Len(workbook.Sheets[2]) = 3
  /\ \E i \in 2..3 :
       /\ Lt(workbook.Sheets[2][i][4], workbook.Sheets[2][i][5])
       /\ workbook.Sheets[2][i][6] = Zero
  /\ \E i \in 2..3 : Gt(workbook.Sheets[2][i][6], Zero)

\* C22: with an empty sales log, totalPieces > 0 and totalInvestmentUsd > 0,
\* the dynamic cost equals the initial cost, totalInvestmentUsd / totalPieces,
\* recoveryProgress and netProfitUsd are 0 and isROIReached is false.
C22_EmptyLogSnapshot ==
  (Len(sales) = 0 /\ Gt(config.totalPieces, Zero)
     /\ Gt(Add(config.investmentUsd, config.additionalExpensesUsd), Zero)) =>
    /\ stats.dynamicCostPerPieceUsd = stats.initialCostPerPieceUsd
    /\ stats.initialCostPerPieceUsd =
         Div(Add(config.investmentUsd, config.additionalExpensesUsd), config.totalPieces)
    /\ stats.recoveryProgress = Zero
    /\ stats.netProfitUsd = Zero
    /\ stats.isROIReached = FALSE

\* the settings were edited to a positive investment and piece count other than
\* the defaults, and nothing has been sold
C22_Witness ==
  /\ Len(sales) = 0
  /\ config.investmentUsd # defaultConfig.investmentUsd
  /\ config.totalPieces # defaultConfig.totalPieces
  /\ Gt(config.totalPieces, Zero)
  /\ Gt(stats.totalInvestmentUsd, Zero)
  /\ Gt(stats.dynamicCostPerPieceUsd, Zero)
  /\ stats.dynamicCostPerPieceUsd = stats.initialCostPerPieceUsd
  /\ stats.isROIReached = FALSE

\* C23: whenever the target revenue is not zero, progressToTarget is
\* totalRevenueUsd / (totalInvestmentUsd * targetMultiplier) * 100, with no cap
\* at 100; once recoveryProgress is 100, an appended sale that raises the
\* revenue never lowers progressToTarget (it raises it unless the two quotients
\* round to the same number), and the progress goes past 100.
C23_ProgressToTarget ==
  /\ [](stats.targetRevenueUsd # Zero =>
          stats.progressToTarget =
            Mul(Div(stats.totalRevenueUsd,
                    Mul(Add(config.investmentUsd, config.additionalExpensesUsd),
                        config.targetMultiplier)),
                Num(100)))
  /\ [][(/\ Appended
         /\ stats.recoveryProgress = Num(100)
         /\ Gt(stats'.totalRevenueUsd, stats.totalRevenueUsd)) =>
          Ge(stats'.progressToTarget, stats.progressToTarget)]_vars

\* the investment was recovered by the second sale and the third one took the
\* progress to the target from 100 or less to more than 100
C23_Witness ==
  /\ Len(sales) = 3
  /\ stats.recoveryProgress = Num(100)
  /\ calculateFinancials(config, SubSeq(sales, 1, 2)).recoveryProgress = Num(100)
  /\ Le(calculateFinancials(config, SubSeq(sales, 1, 2)).progressToTarget, Num(100))
  /\ Gt(stats.progressToTarget, Num(100))
  /\ IsFin(stats.progressToTarget)

\* C24: a step that makes the log longer is the recording of one sale: the log
\* after it is the log before it followed by one new sale, piecesSold is one
\* more than before and remainingPieces one less.
C24_AppendOne ==
  [][Len(sales') > Len(sales) =>
       /\ Len(sales') = Len(sales) + 1
       /\ \A i \in 1..Len(sales) : sales'[i] = sales[i]
       /\ sales' = Append(sales, sales'[Len(sales')])
       /\ stats'.piecesSold = Add(stats.piecesSold, Num(1))
       /\ stats'.remainingPieces = Sub(stats.remainingPieces, Num(1))]_vars

\* two sales were recorded one after the other; the first kept its place
C24_Witness ==
  /\ Len(sales) = 2
  /\ sales[1].id < sales[2].id
  /\ stats.piecesSold = Num(2)
  /\ stats.remainingPieces = Sub(config.totalPieces, Num(2))

\* C25: a confirmed deleteSale(id) removes the sale with that id and keeps every
\* other sale, unchanged and in the same order; when no sale has that id, or
\* when the confirmation is declined, the log stays as it was.
C25_DeleteFrame ==
  [][\A id \in 1..MaxDeleteIds :
       /\ deleteSaleOn(id, TRUE) =>
            IF \E i \in 1..Len(sales) : sales[i].id = id
            THEN \E i \in 1..Len(sales) :
                   /\ sales[i].id = id
                   /\ sales' = SubSeq(sales, 1, i - 1) \o SubSeq(sales, i + 1, Len(sales))
            ELSE sales' = sales
       /\ deleteSaleOn(id, FALSE) => sales' = sales]_vars

\* three sales were recorded and the second was deleted: the first and the
\* third are left, in that order
C25_Witness ==
  /\ nextId = 4
  /\ Len(sales) = 2
  /\ sales[1].id = 1
  /\ sales[2].id = 3
  /\ stats.piecesSold = Num(2)

\* C26 as stated: in every snapshot capitalRecoveredUsd + netProfitUsd is exactly
\* totalRevenueUsd, and netProfitUsd > 0 and remainingInvestmentUsd > 0 never
\* hold together.
C26_ExactSplit ==
  /\ Add(stats.capitalRecoveredUsd, stats.netProfitUsd) = stats.totalRevenueUsd
  /\ ~(Gt(stats.netProfitUsd, Zero) /\ Gt(stats.remainingInvestmentUsd, Zero))

\* C26, amended: for a finite investment, revenue and profit,
\* capitalRecoveredUsd + netProfitUsd equals totalRevenueUsd exactly while the
\* revenue has not passed the investment, and otherwise within one unit in the
\* last place of the larger of |investment| and |revenue| (the two roundings of
\* R - I and of I + (R - I)); netProfitUsd > 0 and remainingInvestmentUsd > 0
\* never hold together.
C26_SplitWithinRounding ==
  LET I == stats.totalInvestmentUsd
      R == stats.totalRevenueUsd
      s == Add(stats.capitalRecoveredUsd, stats.netProfitUsd)
  IN  /\ (IsFin(I) /\ IsFin(R) /\ IsFin(stats.netProfitUsd)) =>
           /\ IsFin(s)
           /\ Le(R, I) => s = R
           /\ Abs(s.v - R.v) <= Ulp(MaxInt(Abs(I.v), Abs(R.v)))
      /\ ~(Gt(stats.netProfitUsd, Zero) /\ Gt(stats.remainingInvestmentUsd, Zero))

\* the revenue has passed a positive investment and the two slices add up to
\* one unit in the last place away from the revenue
C26_Witness ==
  /\ Len(sales) > 0
  /\ Gt(stats.totalInvestmentUsd, Zero)
  /\ Gt(stats.netProfitUsd, Zero)
  /\ stats.remainingInvestmentUsd = Zero
  /\ Add(stats.capitalRecoveredUsd, stats.netProfitUsd) # stats.totalRevenueUsd
  /\ Abs(Add(stats.capitalRecoveredUsd, stats.netProfitUsd).v - stats.totalRevenueUsd.v)
       = Ulp(stats.totalRevenueUsd.v)

\* C27: under an unchanged config, appending a sale with price >= 0 never takes
\* isROIReached from true to false and never lowers netProfitUsd; a step that
\* takes isROIReached from true to false shortens the log (a deletion or a
\* reset) or raises totalInvestmentUsd (a config edit), unless it appends a
\* sale with a negative price, which the claim sets aside.
C27_RoiNeverLost ==
  /\ [][(/\ Appended
         /\ config' = config
         /\ Ge(sales'[Len(sales')].price, Zero)) =>
          /\ stats.isROIReached => stats'.isROIReached
          /\ Ge(stats'.netProfitUsd, stats.netProfitUsd)]_vars
  /\ [][(stats.isROIReached /\ ~stats'.isROIReached) =>
          \/ Len(sales') < Len(sales)
          \/ Gt(stats'.totalInvestmentUsd, stats.totalInvestmentUsd)
          \/ Appended /\ Lt(sales'[Len(sales')].price, Zero)]_vars

\* the first sale recovered the investment and the second, at a price >= 0,
\* raised the profit
C27_Witness ==
  /\ Len(sales) = 2
  /\ \A i \in 1..2 : Ge(sales[i].price, Zero)
  /\ calculateFinancials(config, SubSeq(sales, 1, 1)).isROIReached
  /\ stats.isROIReached
  /\ Gt(stats.netProfitUsd, calculateFinancials(config, SubSeq(sales, 1, 1)).netProfitUsd)

\* the snapshot after a sale at the simulated base-currency price is appended
\* to the log, under the same config
afterSimulatedSale ==
  calculateFinancials(config,
                      Append(sales, [newSaleRecord(nextId) EXCEPT !.price = simPriceInUsd]))

\* C28 as stated: for every price > 0 the remaining investment and the new
\* dynamic cost predicted by the simulation modal equal those of the snapshot
\* computed after a sale at that price is appended.
C28_PredictionExact ==
  (simResultsModal # noSimResults /\ Gt(simPriceInUsd, Zero)) =>
    /\ simResultsModal.remainingInv = afterSimulatedSale.remainingInvestmentUsd
    /\ simResultsModal.dynamicCost = afterSimulatedSale.dynamicCostPerPieceUsd

\* C28, amended: for every price p > 0 and a finite investment I and revenue R,
\* the predicted remaining investment and new dynamic cost equal those of the
\* snapshot after the append exactly once the revenue has reached the
\* investment, and otherwise within two, respectively three, units in the last
\* place of |I| + |R| + p (the prediction rounds (I - R) - p, the snapshot
\* I - (R + p)).
C28_PredictionWithinRounding ==
  LET I == stats.totalInvestmentUsd
      R == stats.totalRevenueUsd
      p == simPriceInUsd
      U == Ulp(Abs(I.v) + Abs(R.v) + Abs(p.v))
  IN  (/\ simResultsModal # noSimResults
       /\ Gt(p, Zero) /\ IsFin(p) /\ IsFin(I) /\ IsFin(R)
       /\ IsFin(afterSimulatedSale.totalRevenueUsd)) =>
        /\ IsFin(simResultsModal.remainingInv)
        /\ IsFin(afterSimulatedSale.remainingInvestmentUsd)
        /\ IsFin(simResultsModal.dynamicCost)
        /\ IsFin(afterSimulatedSale.dynamicCostPerPieceUsd)
        /\ Ge(R, I) =>
             /\ simResultsModal.remainingInv = afterSimulatedSale.remainingInvestmentUsd
             /\ simResultsModal.dynamicCost = afterSimulatedSale.dynamicCostPerPieceUsd
        /\ Abs(simResultsModal.remainingInv.v
                 - afterSimulatedSale.remainingInvestmentUsd.v) <= 2 * U
        /\ Abs(simResultsModal.dynamicCost.v
                 - afterSimulatedSale.dynamicCostPerPieceUsd.v) <= 3 * U

\* a sale is logged, part of the investment is open, and the prediction for a
\* price > 0 is one rounding away from the snapshot after the append
C28_Witness ==
  /\ Len(sales) >= 1
  /\ Gt(stats.remainingInvestmentUsd, Zero)
  /\ simResultsModal # noSimResults
  /\ Gt(simPriceInUsd, Zero)
  /\ Gt(afterSimulatedSale.remainingInvestmentUsd, Zero)
  /\ simResultsModal.remainingInv # afterSimulatedSale.remainingInvestmentUsd

\* C29: whatever is typed in the exchange-rate input, config.exchangeRate is
\* never 0 (an empty or zero entry is replaced by 1), so the division by the
\* rate in handleAddSale and in the simulator never yields a non-finite price.
C29_RateNeverZero ==
  /\ config.exchangeRate # Zero
  /\ IsFin(config.exchangeRate)
  /\ \A i \in 1..Len(sales) : IsFin(sales[i].price)
  /\ IsFin(simPriceInUsd)

\* the rate was replaced by 1 after an empty or zero entry, and a sale entered in
\* MXN was converted at a rate other than the default one
C29_Witness ==
  /\ config.exchangeRate = Num(1)
  /\ displayCurrency = MXN
  /\ Len(sales) = 2
  /\ sales[1].price # sales[2].price
  /\ sales[2].price = Num(39)
  /\ Gt(simPrice, Zero)

====
